---- MODULE Spec2Model ----
(***************************************************************************)
(* Verification model of the two presentation components of the demo      *)
(* application:                                                            *)
(*   - src/src/components/InfiniteScroller.vue  (paginated feed loader)    *)
(*   - src/src/components/GpsTracker.vue        (GPS path recorder)        *)
(* The components share no state (src/src/App.vue mounts one of them at a  *)
(* time), so each has its own specification: FeedSpec and TrackerSpec.     *)
(* TrackerFairSpec adds the progress of a started capture, RedrawSpec      *)
(* follows the markers on the recorder's map, and AppSpec is a visit of    *)
(* either screen.                                                          *)
(*                                                                         *)
(* A step of the model is one task of the browser's event loop: a handler  *)
(* together with the microtasks it leaves behind (Vue's re-render and      *)
(* watchers, nextTick callbacks, promise continuations up to their next    *)
(* await on I/O or on a timer).  What the environment supplies (server     *)
(* responses, positions, the clock, whether geolocation exists) is chosen  *)
(* from small sets.  The clock does not run backwards.                     *)
(***************************************************************************)
EXTENDS Integers, Sequences, FiniteSets, Bags

VARIABLES
    \* ---- InfiniteScroller.vue -------------------------------------------
    content,        \* ref<ContentItem[]>            (line 30)
    nextTag,        \* ref<string | null>            (line 31)
    isLoading,      \* ref<boolean>                  (line 32)
    sentinelRef,    \* TRUE iff the sentinel element is rendered (line 33)
    observer,       \* IntersectionObserver | null   (line 35)
    feedView,       \* lifecycle of the component: created / mounted / unmounted
    scrollBound,    \* TRUE iff handleScroll is registered on window
    inflight,       \* HTTP requests issued and not yet settled (their params)
    reqCount,       \* number of requests issued so far
    \* history of the feed, kept for the statements about it
    received,       \* concatenation of the bodies of successful non-empty responses
    lastHeader,     \* raw "tag" header of the latest successful non-empty response
    exhausted,      \* TRUE once a response has set nextTag to null
    feedEvent,      \* the latest feed event and what it did
    \* ---- GpsTracker.vue -------------------------------------------------
    recordedPath,   \* ref<Coordinate[]>             (line 19)
    isRecording,    \* ref(false)                    (line 20)
    message,        \* ref('')                       (line 21)
    watchId,        \* number | null                 (line 29)
    pathLayer,      \* the polyline, if any          (line 28)
    startMarker,    \* markers remembered for removal (lines 31-33), as bags
    endMarker,
    manualMarkers,
    mapLayers,      \* the markers Leaflet holds on the map, as a bag
    mapState,       \* `map`: none (null) / live / removed   (line 27)
    mapInteractive, \* TRUE iff the map's interaction handlers are enabled
    frozenClass,    \* TRUE iff #map-container carries class leaflet-freeze
    captures,       \* screenshot tasks at each stage of stopAndScreenshot
    trackerView,    \* lifecycle of the component: created / mounted / unmounted
    \* the platform the recorder runs on
    geolocation,    \* TRUE iff navigator.geolocation exists
    activeWatches,  \* ids of the position watches the platform is serving
    nextWatchId,    \* id the next watchPosition call returns
    initQuery,      \* TRUE iff the one-shot query of onMounted is pending
    markerQueries,  \* pending one-shot queries of dropMarker: how many were
                    \* issued in the session now recording (fresh) and how
                    \* many in a session stopped since (stale)
    now,            \* Date.now(), in milliseconds
    layersFollowed  \* TRUE iff the model follows mapLayers (see RedrawSpec)

feedVars == <<content, nextTag, isLoading, sentinelRef, observer, feedView,
              scrollBound, inflight, reqCount, received, lastHeader, exhausted,
              feedEvent>>

trackerVars == <<recordedPath, isRecording, message, watchId, pathLayer,
                 startMarker, endMarker, manualMarkers, mapLayers, mapState,
                 mapInteractive, frozenClass, captures, trackerView,
                 geolocation, layersFollowed, activeWatches, nextWatchId,
                 initQuery, markerQueries, now>>

(***************************************************************************)
(* Values                                                                  *)
(***************************************************************************)
\* JavaScript null and undefined, kept apart from every string value.
Null == "<null>"
Undefined == "<undefined>"
\* The value of params.tag when the key is not set.
NoTag == "<omitted>"

\* Bounds of the model.
MaxRequests == 3

\* What the server may answer: response.data and response.headers["tag"].
Items == {"a", "b"}
\* response.data is either missing (null) or an array of items.
NoData == [kind |-> "null", items |-> <<>>]
Array(items) == [kind |-> "array", items |-> items]
Bodies == {NoData, Array(<<>>), Array(<<"a">>), Array(<<"b", "a">>)}
Headers == {Undefined, "", "c1", "c2"}

\* Geometry of a scroll event: window.scrollY, window.innerHeight,
\* document.body.scrollHeight.
ScrollTops == {0, 200, 1200}
ViewportHeights == {800}
FullHeights == {2000, 4000}

(***************************************************************************)
(* InfiniteScroller.vue: pure parts                                        *)
(***************************************************************************)
\* JavaScript truthiness of a string | null | undefined value.
Truthy(v) == v # Null /\ v # Undefined /\ v # ""

\* `response.data || []`
OrEmpty(data) == IF data.kind = "null" THEN <<>> ELSE data.items

\* `response.headers["tag"] || null`
OrNull(h) == IF Truthy(h) THEN h ELSE Null

\* Guard of loadContent (line 43).
LoadContentBlocked(loading, tag) == loading \/ tag = ""

\* A bug: the tag is never added to the parameters.
RequestParamsNoTag(tag) ==
    [refresh |-> 1, type |-> 0, auth |-> 0, per_page |-> 8, tag |-> NoTag]

\* Request parameters (lines 48-56): tag is added only when nextTag is truthy.
RequestParams(tag) ==
    [refresh |-> 1, type |-> 0, auth |-> 0, per_page |-> 8,
     tag |-> IF Truthy(tag) THEN tag ELSE NoTag]

\* A bug: loadContent forgets to raise the busy flag.
LoadContentStartNoFlag(loading, tag) ==
    [isLoading |-> loading, params |-> RequestParams(tag)]

\* Synchronous prefix of loadContent past its guard (lines 45-62): the busy
\* flag is raised and the request is built and sent.
LoadContentStart(loading, tag) ==
    [isLoading |-> TRUE, params |-> RequestParams(tag)]

\* A bug: new items are put in front of the list instead of at its end.
LoadContentSuccessPrepend(items, tag, data, header) ==
    LET newItems == OrEmpty(data) IN
    IF Len(newItems) > 0
    THEN [content |-> newItems \o items, nextTag |-> OrNull(header), isLoading |-> FALSE]
    ELSE [content |-> items, nextTag |-> Null, isLoading |-> FALSE]

\* A bug: an empty page takes the cursor from the header like any other page.
LoadContentSuccessKeepsHeader(items, tag, data, header) ==
    LET newItems == OrEmpty(data) IN
    [content |-> items \o newItems, nextTag |-> OrNull(header), isLoading |-> FALSE]

\* Continuation of loadContent on a successful response (lines 64-74, 78).
LoadContentSuccess(items, tag, data, header) ==
    LET newItems == OrEmpty(data) IN
    IF Len(newItems) > 0
    THEN [content |-> items \o newItems, nextTag |-> OrNull(header), isLoading |-> FALSE]
    ELSE [content |-> items, nextTag |-> Null, isLoading |-> FALSE]

\* A bug: the busy flag is cleared on success only (no `finally`).
LoadContentFailureKeepsBusy(items, tag) ==
    [content |-> items, nextTag |-> tag, isLoading |-> TRUE]

\* Continuation of loadContent on a rejected request (lines 75-79).
LoadContentFailure(items, tag) ==
    [content |-> items, nextTag |-> tag, isLoading |-> FALSE]

\* A bug: handleScroll tests the cursor against the empty string, as
\* loadContent does, instead of null.
HandleScrollBlockedEmptyTag(loading, tag) == loading \/ tag = ""

\* A bug: handleScroll checks the busy flag only.
HandleScrollBlockedBusyOnly(loading, tag) == loading

\* Guard of handleScroll (line 87).
HandleScrollBlocked(loading, tag) == loading \/ tag = Null

\* A bug: the threshold is taken on the scroll offset alone.
ScrollRatioReachedNoViewport(scrollTop, viewportHeight, fullHeight) ==
    IF fullHeight = 0
    THEN scrollTop > 0
    ELSE 2 * scrollTop >= fullHeight

\* scrolledRatio >= 0.5 (lines 93-96); the ratio is a real number, so the
\* comparison is made on 2 * (scrollTop + viewportHeight) and fullHeight.
ScrollRatioReached(scrollTop, viewportHeight, fullHeight) ==
    IF fullHeight = 0
    THEN scrollTop + viewportHeight > 0
    ELSE 2 * (scrollTop + viewportHeight) >= fullHeight

\* The sentinel after the re-render that follows a change of nextTag
\* (template: `v-if="nextTag !== null"`), and the observer after
\* watch(sentinelRef) has run (lines 106-123): a new sentinel element gets a
\* new observer, a removed one leaves the observer as it is.  An unmounted
\* component is not rendered.
Rendered(view, tag, sentinel, obs) ==
    LET el == view = "mounted" /\ tag # Null IN
    [sentinelRef |-> el,
     observer |-> IF el /\ ~sentinel THEN "observing" ELSE obs]

\* Condition of the IntersectionObserver callback (lines 113-114).
ObserverFires(visible, loading, tag) == visible /\ ~loading /\ tag # Null

(***************************************************************************)
(* InfiniteScroller.vue: state machine                                     *)
(***************************************************************************)
\* What the latest event was: its handler, whether the event by itself asked
\* for a page (mount; scroll past the ratio; sentinel intersecting), and
\* whether a request was issued.
Event(op, want, issued) == [op |-> op, want |-> want, issued |-> issued]

FeedInit ==
    /\ content = <<>>
    /\ nextTag = Null
    /\ isLoading = FALSE
    /\ sentinelRef = FALSE
    /\ observer = "none"
    /\ feedView = "created"
    /\ scrollBound = FALSE
    /\ inflight = <<>>
    /\ reqCount = 0
    /\ received = <<>>
    /\ lastHeader = Undefined
    /\ exhausted = FALSE
    /\ feedEvent = Event("init", FALSE, FALSE)

\* loadContent up to its await (lines 42-62), called by `op`.  The model
\* stops issuing requests after MaxRequests of them.
loadContent(op) ==
    IF LoadContentBlocked(isLoading, nextTag)
    THEN /\ feedEvent' = Event(op, TRUE, FALSE)
         /\ UNCHANGED <<isLoading, inflight, reqCount>>
    ELSE LET s == LoadContentStart(isLoading, nextTag) IN
         /\ reqCount < MaxRequests
         /\ isLoading' = s.isLoading
         /\ inflight' = Append(inflight, s.params)
         /\ reqCount' = reqCount + 1
         /\ feedEvent' = Event(op, TRUE, TRUE)

\* onMounted (lines 128-131).  The view switcher shows one component at a
\* time (src/src/App.vue, lines 33-36), and the model follows one visit of
\* one screen: a component is mounted only if the other one never was.
FeedMount ==
    /\ feedView = "created"
    /\ trackerView = "created"
    /\ feedView' = "mounted"
    /\ scrollBound' = TRUE
    /\ loadContent("mount")
    /\ UNCHANGED <<content, nextTag, sentinelRef, observer, received, lastHeader,
                   exhausted>>
    /\ UNCHANGED trackerVars

\* A scroll event delivered to handleScroll (lines 86-100).
HandleScroll(scrollTop, viewportHeight, fullHeight) ==
    /\ scrollBound
    /\ IF HandleScrollBlocked(isLoading, nextTag)
          \/ ~ScrollRatioReached(scrollTop, viewportHeight, fullHeight)
       THEN /\ feedEvent' = Event("scroll",
                   ScrollRatioReached(scrollTop, viewportHeight, fullHeight), FALSE)
            /\ UNCHANGED <<isLoading, inflight, reqCount>>
       ELSE loadContent("scroll")
    /\ UNCHANGED <<content, nextTag, sentinelRef, observer, feedView, scrollBound,
                   received, lastHeader, exhausted>>
    /\ UNCHANGED trackerVars

\* The observer reports the sentinel (lines 112-118).  The sentinel can only
\* be reported as intersecting while it is rendered.
Intersect(visible) ==
    /\ observer = "observing"
    /\ visible => sentinelRef
    /\ IF ObserverFires(visible, isLoading, nextTag)
       THEN loadContent("intersect")
       ELSE /\ feedEvent' = Event("intersect", visible, FALSE)
            /\ UNCHANGED <<isLoading, inflight, reqCount>>
    /\ UNCHANGED <<content, nextTag, sentinelRef, observer, feedView, scrollBound,
                   received, lastHeader, exhausted>>
    /\ UNCHANGED trackerVars

\* The request at position i settles with a response (lines 64-74, 78); the
\* re-render and the watcher run before any other event is handled.
ResponseSuccess(i, data, header) ==
    /\ i \in 1..Len(inflight)
    /\ LET s == LoadContentSuccess(content, nextTag, data, header) IN
       /\ content' = s.content
       /\ nextTag' = s.nextTag
       /\ isLoading' = s.isLoading
       /\ exhausted' = (exhausted \/ s.nextTag = Null)
       /\ received' = IF data.kind = "array" /\ data.items # <<>>
                      THEN received \o data.items ELSE received
       /\ lastHeader' = IF data.kind = "array" /\ data.items # <<>>
                        THEN header ELSE lastHeader
       /\ LET r == Rendered(feedView, s.nextTag, sentinelRef, observer) IN
          /\ sentinelRef' = r.sentinelRef
          /\ observer' = r.observer
    /\ inflight' = SubSeq(inflight, 1, i - 1) \o SubSeq(inflight, i + 1, Len(inflight))
    /\ feedEvent' = Event("success", FALSE, FALSE)
    /\ UNCHANGED <<feedView, scrollBound, reqCount>>
    /\ UNCHANGED trackerVars

\* The request at position i is rejected (lines 75-79).
ResponseFailure(i) ==
    /\ i \in 1..Len(inflight)
    /\ LET s == LoadContentFailure(content, nextTag) IN
       /\ content' = s.content
       /\ nextTag' = s.nextTag
       /\ isLoading' = s.isLoading
    /\ inflight' = SubSeq(inflight, 1, i - 1) \o SubSeq(inflight, i + 1, Len(inflight))
    /\ feedEvent' = Event("failure", FALSE, FALSE)
    /\ UNCHANGED <<sentinelRef, observer, feedView, scrollBound, reqCount, received,
                   lastHeader, exhausted>>
    /\ UNCHANGED trackerVars

\* onUnmounted (lines 133-136).
FeedUnmount ==
    /\ feedView = "mounted"
    /\ feedView' = "unmounted"
    /\ observer' = IF observer # "none" THEN "disconnected" ELSE observer
    /\ scrollBound' = FALSE
    /\ sentinelRef' = FALSE
    /\ feedEvent' = Event("unmount", FALSE, FALSE)
    /\ UNCHANGED <<content, nextTag, isLoading, inflight, reqCount, received,
                   lastHeader, exhausted>>
    /\ UNCHANGED trackerVars

FeedNext ==
    \/ FeedMount
    \/ \E s \in ScrollTops, v \in ViewportHeights, h \in FullHeights : HandleScroll(s, v, h)
    \/ \E visible \in BOOLEAN : Intersect(visible)
    \/ \E i \in 1..MaxRequests, d \in Bodies, h \in Headers : ResponseSuccess(i, d, h)
    \/ \E i \in 1..MaxRequests : ResponseFailure(i)
    \/ FeedUnmount

(***************************************************************************)
(* GpsTracker.vue: values                                                  *)
(***************************************************************************)
\* Bounds of the model.
MaxPath == 2
MaxStarts == 2
MaxTicks == 1
MaxQueries == 1
\* Milliseconds the clock advances in one step of the model.
TickMs == 20000

\* `watchId = null`; the platform's watch ids are positive.
NoWatch == 0

\* Thresholds of the outlier filter (line 142).
SpeedLimit == 50
DistanceLimit == 50

\* Positions the platform may report.  All lie on one meridian and `lat` is
\* the arc length from the equator in metres, so that the Haversine distance
\* of two positions is the difference of their `lat`.
Lats == {0, 1000}
Positions == {[lat |-> l, lng |-> 0] : l \in Lats}
\* Where the device is when the component is mounted.
InitialPositions == {[lat |-> 0, lng |-> 0]}

NoLayer == [present |-> FALSE, latlngs |-> <<>>]
NoCaptures == [settle |-> 0, raster |-> 0]
NoQueries == [fresh |-> 0, stale |-> 0]
QueryKinds == {"fresh", "stale"}

\* The session that issued the pending queries is stopped (lines 221-222): the
\* platform keeps them pending, and none of them is a query of the session
\* now recording any more.
EndSession(queries) == [fresh |-> 0, stale |-> queries.stale + queries.fresh]

(***************************************************************************)
(* GpsTracker.vue: pure parts                                              *)
(***************************************************************************)
Abs(x) == IF x < 0 THEN -x ELSE x

\* getDistance (lines 40-51), for two positions on one meridian.
getDistance(c1, c2) == Abs(c2.lat - c1.lat)

\* `speed > 50` for speed = distanceMeters / timeDiff, timeDiff in seconds
\* (lines 137-139): a division by zero gives Infinity, 0/0 gives NaN, which
\* compares false.
SpeedExceeds(distanceMeters, timeDiffMs) ==
    IF timeDiffMs = 0
    THEN distanceMeters > 0
    ELSE IF timeDiffMs > 0
         THEN distanceMeters * 1000 > SpeedLimit * timeDiffMs
         ELSE FALSE

\* A bug: either threshold alone discards the sample.
IsOutlierEither(lastCoord, newCoord) ==
    LET distanceMeters == getDistance(lastCoord, newCoord)
        timeDiffMs == newCoord.timestamp - lastCoord.timestamp
    IN SpeedExceeds(distanceMeters, timeDiffMs) \/ distanceMeters > DistanceLimit

\* The outlier test of recordCoordinate (lines 137-142).
IsOutlier(lastCoord, newCoord) ==
    LET distanceMeters == getDistance(lastCoord, newCoord)
        timeDiffMs == newCoord.timestamp - lastCoord.timestamp
    IN SpeedExceeds(distanceMeters, timeDiffMs) /\ distanceMeters > DistanceLimit

\* A bug: manual markers go through the outlier filter too.
RecordCoordinateFiltersManual(path, pos, t, isManual) ==
    LET newCoord == [lat |-> pos.lat, lng |-> pos.lng, timestamp |-> t,
                     isManual |-> isManual]
    IN IF Len(path) > 0 /\ IsOutlier(path[Len(path)], newCoord)
       THEN [path |-> path, message |-> "Skipped GPS outlier", recorded |-> FALSE]
       ELSE [path |-> Append(path, newCoord),
             message |-> IF isManual THEN "Manual marker dropped" ELSE "Path recorded",
             recorded |-> TRUE]

\* A bug: an accepted coordinate takes the place of the last element.
RecordCoordinateOverwrites(path, pos, t, isManual) ==
    LET newCoord == [lat |-> pos.lat, lng |-> pos.lng, timestamp |-> t,
                     isManual |-> isManual]
    IN IF Len(path) > 0 /\ ~isManual /\ IsOutlier(path[Len(path)], newCoord)
       THEN [path |-> path, message |-> "Skipped GPS outlier", recorded |-> FALSE]
       ELSE [path |-> IF Len(path) > 0
                      THEN [path EXCEPT ![Len(path)] = newCoord]
                      ELSE <<newCoord>>,
             message |-> IF isManual THEN "Manual marker dropped" ELSE "Path recorded",
             recorded |-> TRUE]

\* recordCoordinate without the redraw (lines 126-149): the new path, the
\* message, and whether the coordinate was recorded.
RecordCoordinate(path, pos, t, isManual) ==
    LET newCoord == [lat |-> pos.lat, lng |-> pos.lng, timestamp |-> t,
                     isManual |-> isManual]
    IN IF Len(path) > 0 /\ ~isManual /\ IsOutlier(path[Len(path)], newCoord)
       THEN [path |-> path, message |-> "Skipped GPS outlier", recorded |-> FALSE]
       ELSE [path |-> Append(path, newCoord),
             message |-> IF isManual THEN "Manual marker dropped" ELSE "Path recorded",
             recorded |-> TRUE]

\* A marker on the map: the class of its icon (lines 102-104; "default" for
\* Leaflet's own icon) and its position.
Marker(icon, c) == [icon |-> icon, lat |-> c.lat, lng |-> c.lng]

\* `recordedPath.value.map(c => [c.lat, c.lng])` (line 61).
LatLngs(path) == [i \in DOMAIN path |-> [lat |-> path[i].lat, lng |-> path[i].lng]]

\* The markers of the loop over the manual coordinates (lines 115-119).
RECURSIVE ManualMarkersOf(_)
ManualMarkersOf(path) ==
    IF path = <<>>
    THEN EmptyBag
    ELSE (IF Head(path).isManual
          THEN SetToBag({Marker("manual-marker", Head(path))})
          ELSE EmptyBag) (+) ManualMarkersOf(Tail(path))

\* The markers one call of updateMapPath puts on the map (lines 88-120).
MarkersOf(path, isFinal) ==
    IF Len(path) = 0
    THEN EmptyBag
    ELSE SetToBag({Marker("start-marker", path[1])})
         (+) (IF Len(path) > 1
              THEN SetToBag({Marker(IF isFinal THEN "end-marker-final"
                                    ELSE "end-marker-active", path[Len(path)])})
              ELSE EmptyBag)
         (+) ManualMarkersOf(path)

\* updateMapPath on a live map (lines 61-120): the polyline is created or
\* updated, the markers the component remembers are taken off the map and
\* forgotten, and the markers of the path are put on the map.  The new
\* markers are handed to Leaflet without being remembered (lines 107-118),
\* so the three handles stay empty.  The view of the map (line 72) is not
\* part of the state.
UpdateMapPath(m, path, isFinal) ==
    LET latlngs == LatLngs(path)
        layer == IF m.pathLayer.present \/ Len(latlngs) > 0
                 THEN [present |-> TRUE, latlngs |-> latlngs]
                 ELSE m.pathLayer
        kept == ((m.mapLayers (-) m.startMarker) (-) m.endMarker) (-) m.manualMarkers
    IN [pathLayer |-> layer,
        startMarker |-> EmptyBag,
        endMarker |-> EmptyBag,
        manualMarkers |-> EmptyBag,
        mapLayers |-> kept (+) MarkersOf(path, isFinal)]

(***************************************************************************)
(* GpsTracker.vue: state machine                                           *)
(***************************************************************************)
TrackerInit ==
    /\ recordedPath = <<>>
    /\ isRecording = FALSE
    /\ message = ""
    /\ watchId = NoWatch
    /\ pathLayer = NoLayer
    /\ startMarker = EmptyBag
    /\ endMarker = EmptyBag
    /\ manualMarkers = EmptyBag
    /\ mapLayers = EmptyBag
    /\ mapState = "none"
    /\ mapInteractive = TRUE
    /\ frozenClass = FALSE
    /\ captures = NoCaptures
    /\ trackerView = "created"
    /\ geolocation \in BOOLEAN
    /\ activeWatches = {}
    /\ nextWatchId = 1
    /\ initQuery = FALSE
    /\ markerQueries = NoQueries
    /\ now = 0
    /\ layersFollowed \in BOOLEAN

mapVars == <<pathLayer, startMarker, endMarker, manualMarkers, mapLayers>>

\* What Leaflet holds on the map is written by the component and never read
\* back by it, so the recorder behaves the same whether or not the model
\* follows it.  The model follows it where the markers are examined
\* (RedrawSpec) and leaves mapLayers empty elsewhere.
Followed(layers) == IF layersFollowed THEN layers ELSE mapLayers

\* updateMapPath (lines 56-121) for the path `path`.  Without a map it
\* returns at once; on a map that was removed by onUnmounted the Leaflet
\* calls either still act on the detached objects or throw at the first one.
updateMapPath(path, isFinal) ==
    LET m == UpdateMapPath([pathLayer |-> pathLayer, startMarker |-> startMarker,
                            endMarker |-> endMarker, manualMarkers |-> manualMarkers,
                            mapLayers |-> mapLayers],
                           path, isFinal)
        drawn == /\ pathLayer' = m.pathLayer
                 /\ startMarker' = m.startMarker
                 /\ endMarker' = m.endMarker
                 /\ manualMarkers' = m.manualMarkers
                 /\ mapLayers' = Followed(m.mapLayers)
    IN CASE mapState = "none" -> UNCHANGED mapVars
         [] mapState = "live" -> drawn
         [] mapState = "removed" -> drawn \/ UNCHANGED mapVars

\* recordCoordinate (lines 126-151).  The model records at most MaxPath
\* coordinates in a path.
recordCoordinate(pos, isManual) ==
    LET r == RecordCoordinate(recordedPath, pos, now, isManual) IN
    /\ Len(r.path) <= MaxPath
    /\ recordedPath' = r.path
    /\ message' = r.message
    /\ IF r.recorded THEN updateMapPath(r.path, FALSE) ELSE UNCHANGED mapVars

\* onMounted (lines 312-350).  As for the feed, the component is mounted only
\* if the other one never was.
TrackerMount ==
    /\ trackerView = "created"
    /\ feedView = "created"
    /\ trackerView' = "mounted"
    /\ mapState' = "live"
    /\ initQuery' = geolocation
    /\ message' = IF geolocation THEN "Detecting your current location..."
                  ELSE "Geolocation not supported. Using default map center (KL)."
    /\ UNCHANGED <<recordedPath, isRecording, watchId, mapVars, mapInteractive,
                   frozenClass, captures, geolocation, layersFollowed,
                   activeWatches, nextWatchId, markerQueries, now>>
    /\ UNCHANGED feedVars

\* The one-shot query of onMounted resolves (lines 328-339): the map is
\* centred on the position and a marker with Leaflet's own icon is put
\* there.  On a map that was removed the Leaflet calls may throw before the
\* message is set.
InitQuerySuccess(pos) ==
    /\ initQuery
    /\ initQuery' = FALSE
    /\ \/ /\ message' = "Location detected. Click START to begin tracking."
          /\ mapLayers' = Followed(mapLayers (+) SetToBag({Marker("default", pos)}))
       \/ /\ mapState = "removed"
          /\ UNCHANGED <<message, mapLayers>>
    /\ UNCHANGED <<recordedPath, isRecording, watchId, pathLayer, startMarker,
                   endMarker, manualMarkers, mapState, mapInteractive,
                   frozenClass, captures, trackerView, geolocation,
                   layersFollowed, activeWatches, nextWatchId, markerQueries,
                   now>>
    /\ UNCHANGED feedVars

\* The one-shot query of onMounted fails (lines 340-343).
InitQueryError ==
    /\ initQuery
    /\ initQuery' = FALSE
    /\ message' = "Unable to access location. Using default map center."
    /\ UNCHANGED <<recordedPath, isRecording, watchId, mapVars, mapState,
                   mapInteractive, frozenClass, captures, trackerView,
                   geolocation, layersFollowed, activeWatches, nextWatchId,
                   markerQueries, now>>
    /\ UNCHANGED feedVars

\* A bug: the previous path is kept when a new session starts.
StartTrackingKeepsPath(path, layer) ==
    [recordedPath |-> path, pathLayer |-> NoLayer]

\* "Clear previous state" of startTracking (lines 161-162).
StartTracking(path, layer) ==
    [recordedPath |-> <<>>, pathLayer |-> NoLayer]

\* A bug: a start is taken also while the recorder is recording.
StartBlockedNever(recording) == FALSE

\* Guard of startTracking (line 158).
StartBlocked(recording) == recording

\* START (lines 157-178).  The model starts at most MaxStarts sessions.
startTracking ==
    /\ trackerView = "mounted"
    /\ IF StartBlocked(isRecording)
       THEN UNCHANGED <<recordedPath, pathLayer, watchId, activeWatches, nextWatchId,
                        isRecording, message>>
       ELSE LET c == StartTracking(recordedPath, pathLayer) IN
            /\ recordedPath' = c.recordedPath
            /\ pathLayer' = c.pathLayer
            /\ IF geolocation
               THEN /\ nextWatchId <= MaxStarts
                    /\ watchId' = nextWatchId
                    /\ activeWatches' = activeWatches \cup {nextWatchId}
                    /\ nextWatchId' = nextWatchId + 1
                    /\ isRecording' = TRUE
                    /\ message' = "Tracking started. Recording path..."
               ELSE /\ message' = "Geolocation not supported by this browser."
                    /\ UNCHANGED <<watchId, activeWatches, nextWatchId,
                                   isRecording>>
    /\ UNCHANGED <<startMarker, endMarker, manualMarkers, mapLayers, mapState,
                   mapInteractive, frozenClass, captures, trackerView,
                   geolocation, layersFollowed, initQuery, markerQueries, now>>
    /\ UNCHANGED feedVars

\* The platform delivers a position of watch w (line 166).
StreamSample(w, pos) ==
    /\ w \in activeWatches
    /\ recordCoordinate(pos, FALSE)
    /\ UNCHANGED <<isRecording, watchId, mapState, mapInteractive, frozenClass,
                   captures, trackerView, geolocation, layersFollowed,
                   activeWatches, nextWatchId, initQuery, markerQueries, now>>
    /\ UNCHANGED feedVars

\* The platform reports an error of watch w (lines 167-170).
WatchError(w) ==
    /\ w \in activeWatches
    /\ message' = "Geolocation error"
    /\ UNCHANGED <<recordedPath, isRecording, watchId, mapVars, mapState,
                   mapInteractive, frozenClass, captures, trackerView,
                   geolocation, layersFollowed, activeWatches, nextWatchId,
                   initQuery, markerQueries, now>>
    /\ UNCHANGED feedVars

\* A bug: the cleanup of a capture leaves the interaction handlers disabled.
UnfreezeMapForgets(state, interactive) == interactive

\* freezeMap (lines 192-200) and unfreezeMap (lines 206-214): without a map
\* they return at once.
FreezeMap(state, interactive) == IF state = "none" THEN interactive ELSE FALSE
UnfreezeMap(state, interactive) == IF state = "none" THEN interactive ELSE TRUE

\* The nextTick callback of stopAndScreenshot up to its await (lines 228-238),
\* given whether #map-container was found: without it only the message is
\* set; with it the map is frozen and the settle delay of a capture starts.
CaptureBegin(mapEl, state, interactive, frozen, caps) ==
    IF ~mapEl
    THEN [message |-> "Screenshot failed: Map element not found.",
          mapInteractive |-> interactive, frozenClass |-> frozen, captures |-> caps]
    ELSE [message |-> "Tracking stopped. Preparing screenshot...",
          mapInteractive |-> FreezeMap(state, interactive), frozenClass |-> TRUE,
          captures |-> [caps EXCEPT !.settle = @ + 1]]

\* A bug: the handle is forgotten without clearing the watch.
StopWatchKeepsWatch(id, watches) ==
    [watchId |-> NoWatch, activeWatches |-> watches]

\* "Clear geolocation watch" of stopAndScreenshot (line 221).
StopWatch(id, watches) ==
    IF id # NoWatch
    THEN [watchId |-> NoWatch, activeWatches |-> watches \ {id}]
    ELSE [watchId |-> id, activeWatches |-> watches]

\* A bug: stopAndScreenshot does not look at the recording flag.
StopBlockedNever(recording) == FALSE

\* Guard of stopAndScreenshot (line 218).
StopBlocked(recording) == ~recording

\* STOP (lines 217-238).  The nextTick callback is a microtask: it runs when
\* the click handler returns, before any other event, so it is part of this
\* step up to its await.  #map-container is in the page as long as the
\* component is mounted.
stopAndScreenshot ==
    /\ trackerView = "mounted"
    /\ IF StopBlocked(isRecording)
       THEN /\ message' = "Tracking not running"
            /\ UNCHANGED <<watchId, activeWatches, isRecording, mapVars,
                           captures, mapInteractive, frozenClass,
                           markerQueries>>
       ELSE LET w == StopWatch(watchId, activeWatches)
                mapEl == trackerView = "mounted"
                c == CaptureBegin(mapEl, mapState, mapInteractive, frozenClass, captures)
            IN /\ watchId' = w.watchId
               /\ activeWatches' = w.activeWatches
               /\ isRecording' = FALSE
               /\ updateMapPath(recordedPath, TRUE)
               /\ message' = c.message
               /\ mapInteractive' = c.mapInteractive
               /\ frozenClass' = c.frozenClass
               /\ captures' = c.captures
               /\ markerQueries' = EndSession(markerQueries)
    /\ UNCHANGED <<recordedPath, mapState, trackerView, geolocation,
                   layersFollowed, nextWatchId, initQuery, now>>
    /\ UNCHANGED feedVars

\* The settle delay of 150 ms is over and html2canvas is called (lines 238-243).
CaptureSettle ==
    /\ captures.settle > 0
    /\ captures' = [captures EXCEPT !.settle = @ - 1, !.raster = @ + 1]
    /\ UNCHANGED <<recordedPath, isRecording, message, watchId, mapVars,
                   mapState, mapInteractive, frozenClass, trackerView,
                   geolocation, layersFollowed, activeWatches, nextWatchId,
                   initQuery, markerQueries, now>>
    /\ UNCHANGED feedVars

\* html2canvas settles: .then (lines 244-254) or .catch (lines 255-260).
CaptureDone(ok) ==
    /\ captures.raster > 0
    /\ captures' = [captures EXCEPT !.raster = @ - 1]
    /\ frozenClass' = FALSE
    /\ mapInteractive' = UnfreezeMap(mapState, mapInteractive)
    /\ message' = IF ok THEN "Tracking stopped. Screenshot saved."
                  ELSE "Screenshot failed during capture."
    /\ UNCHANGED <<recordedPath, isRecording, watchId, mapVars, mapState,
                   trackerView, geolocation, layersFollowed, activeWatches,
                   nextWatchId, initQuery, markerQueries, now>>
    /\ UNCHANGED feedVars

\* Guard of dropMarker (line 273).
DropBlocked(recording) == ~recording

\* A bug: the last known point is never reused, a query is always issued.
HasLastKnownNever(path) == FALSE

\* `if (last)` of dropMarker (lines 279-280): the path has a last element.
HasLastKnown(path) == Len(path) > 0

\* (+) (lines 272-308).  The model keeps at most MaxQueries queries pending.
dropMarker ==
    /\ trackerView = "mounted"
    /\ IF DropBlocked(isRecording)
       THEN /\ message' = "Start tracking first to drop a marker."
            /\ UNCHANGED <<recordedPath, mapVars, markerQueries>>
       ELSE IF HasLastKnown(recordedPath)
            THEN LET last == recordedPath[Len(recordedPath)] IN
                 /\ recordCoordinate([lat |-> last.lat, lng |-> last.lng], TRUE)
                 /\ UNCHANGED markerQueries
            ELSE /\ markerQueries.fresh + markerQueries.stale < MaxQueries
                 /\ markerQueries' = [markerQueries EXCEPT !.fresh = @ + 1]
                 /\ UNCHANGED <<recordedPath, mapVars, message>>
    /\ UNCHANGED <<isRecording, watchId, mapState, mapInteractive, frozenClass,
                   captures, trackerView, geolocation, layersFollowed,
                   activeWatches, nextWatchId, initQuery, now>>
    /\ UNCHANGED feedVars

\* A pending one-shot query of dropMarker, fresh or stale, resolves
\* (line 301).
MarkerQuerySuccess(q, pos) ==
    /\ markerQueries[q] > 0
    /\ markerQueries' = [markerQueries EXCEPT ![q] = @ - 1]
    /\ recordCoordinate(pos, TRUE)
    /\ UNCHANGED <<isRecording, watchId, mapState, mapInteractive, frozenClass,
                   captures, trackerView, geolocation, layersFollowed,
                   activeWatches, nextWatchId, initQuery, now>>
    /\ UNCHANGED feedVars

\* A pending one-shot query of dropMarker, fresh or stale, fails
\* (lines 302-305).
MarkerQueryError(q) ==
    /\ markerQueries[q] > 0
    /\ markerQueries' = [markerQueries EXCEPT ![q] = @ - 1]
    /\ message' = "Marker error"
    /\ UNCHANGED <<recordedPath, isRecording, watchId, mapVars, mapState,
                   mapInteractive, frozenClass, captures, trackerView,
                   geolocation, layersFollowed, activeWatches, nextWatchId,
                   initQuery, now>>
    /\ UNCHANGED feedVars

\* Time passes.
Tick ==
    /\ now < MaxTicks * TickMs
    /\ now' = now + TickMs
    /\ UNCHANGED <<recordedPath, isRecording, message, watchId, mapVars,
                   mapState, mapInteractive, frozenClass, captures,
                   trackerView, geolocation, layersFollowed, activeWatches,
                   nextWatchId, initQuery, markerQueries>>
    /\ UNCHANGED feedVars

\* A bug: teardown leaves the position watch running.
ReleaseWatchLeaks(id, watches) == watches

\* "Cleanup GPS tracking" of onUnmounted (line 355): the handle itself is
\* kept.
ReleaseWatch(id, watches) == IF id # NoWatch THEN watches \ {id} ELSE watches

\* onUnmounted (lines 353-358); map.remove() takes every layer off the map.
TrackerUnmount ==
    /\ trackerView = "mounted"
    /\ trackerView' = "unmounted"
    /\ activeWatches' = ReleaseWatch(watchId, activeWatches)
    /\ mapState' = "removed"
    /\ mapLayers' = EmptyBag
    /\ UNCHANGED <<recordedPath, isRecording, message, watchId, pathLayer,
                   startMarker, endMarker, manualMarkers, mapInteractive,
                   frozenClass, captures, geolocation, layersFollowed,
                   nextWatchId, initQuery, markerQueries, now>>
    /\ UNCHANGED feedVars

TrackerNext ==
    \/ TrackerMount
    \/ \E pos \in InitialPositions : InitQuerySuccess(pos)
    \/ InitQueryError
    \/ startTracking
    \/ \E w \in 1..MaxStarts, pos \in Positions : StreamSample(w, pos)
    \/ \E w \in 1..MaxStarts : WatchError(w)
    \/ stopAndScreenshot
    \/ CaptureSettle
    \/ \E ok \in BOOLEAN : CaptureDone(ok)
    \/ dropMarker
    \/ \E q \in QueryKinds, pos \in Positions : MarkerQuerySuccess(q, pos)
    \/ \E q \in QueryKinds : MarkerQueryError(q)
    \/ Tick
    \/ TrackerUnmount

(***************************************************************************)
(* Specifications: one component is exercised, the other stays as created. *)
(***************************************************************************)
vars == <<feedVars, trackerVars>>

Init == FeedInit /\ TrackerInit /\ ~layersFollowed

FeedSpec == Init /\ [][FeedNext]_vars

TrackerSpec == Init /\ [][TrackerNext]_vars

\* The recorder with the markers on its map followed.
RedrawInit == FeedInit /\ TrackerInit /\ layersFollowed

RedrawSpec == RedrawInit /\ [][TrackerNext]_vars

\* The application (App.vue, lines 19-20): the screen shown is the only
\* component there is, so a step belongs to the screen that is visited.
AppNext == FeedNext \/ TrackerNext

AppSpec == Init /\ [][AppNext]_vars

\* The settle timer of a capture fires and html2canvas settles its promise,
\* one way or the other: a capture that has started is not left waiting
\* for ever.
TrackerFairSpec ==
    /\ TrackerSpec
    /\ WF_vars(CaptureSettle)
    /\ WF_vars(\E ok \in BOOLEAN : CaptureDone(ok))

(***************************************************************************)
(* Feed loader: properties                                                 *)
(***************************************************************************)
\* C1: at most one fetch request is in flight at any time, and no step taken
\* while a request is in flight issues a request.
C1_SingleFetchInFlight ==
    [][/\ Len(inflight') <= 1
       /\ (Len(inflight) > 0 => reqCount' = reqCount)]_feedVars

\* C1 witness: a scroll past the ratio, or an intersecting sentinel, arrived
\* while a request was in flight and the cursor was set, and issued nothing.
C1_Witness ==
    /\ Len(inflight) = 1
    /\ nextTag # Null
    /\ feedEvent.op \in {"scroll", "intersect"}
    /\ feedEvent.want
    /\ ~feedEvent.issued

\* C2: once a response has set the cursor to null, no step issues a request.
C2_NoFetchAfterExhaustion ==
    [][exhausted => reqCount' = reqCount]_feedVars

\* C2 witness: after a response nulled the cursor, with no request in flight,
\* a scroll past the ratio or an intersecting sentinel arrived and issued
\* nothing.
C2_Witness ==
    /\ exhausted
    /\ ~isLoading
    /\ Len(content) > 0
    /\ feedEvent.op \in {"scroll", "intersect"}
    /\ feedEvent.want
    /\ ~feedEvent.issued

\* C3: the item list is the concatenation, in arrival order, of the bodies of
\* the successful non-empty responses received so far.
C3_ContentIsConcatenation == content = received

\* C3 witness: two non-empty pages and a failed request have arrived.
C3_Witness ==
    /\ content = <<"a", "b", "a">>
    /\ reqCount = 3
    /\ feedEvent.op = "failure"

\* The step is the arrival of a successful response with body d and header h.
SuccessStep(d, h) == \E i \in 1..Len(inflight) : ResponseSuccess(i, d, h)

\* C4 as stated: after a non-empty page the cursor is the header value, or
\* null when the header is absent; after an empty page it is null.
C4_CursorIsHeaderValue ==
    [][\A d \in Bodies, h \in Headers :
          SuccessStep(d, h) =>
              nextTag' = IF d.kind = "array" /\ d.items # <<>>
                         THEN (IF h = Undefined THEN Null ELSE h)
                         ELSE Null]_feedVars

\* C4 amended: after a non-empty page the cursor is the header value, or null
\* when the header is absent or is the empty string; after an empty page it
\* is null whatever the header.
C4_CursorIsHeaderOrNull ==
    [][\A d \in Bodies, h \in Headers :
          SuccessStep(d, h) =>
              nextTag' = IF d.kind = "array" /\ d.items # <<>>
                         THEN (IF h \in {Undefined, ""} THEN Null ELSE h)
                         ELSE Null]_feedVars

\* C4 witness: a non-empty page arrived with an empty "tag" header.
C4_Witness ==
    /\ feedEvent.op = "success"
    /\ lastHeader = ""
    /\ content # <<>>
    /\ nextTag = Null

\* C5: the first request omits tag; every later request carries the cursor
\* given by the latest successful non-empty response; a failure leaves the
\* cursor, hence the tag of the next request, as it was.
C5_RequestTag ==
    [][/\ reqCount' > reqCount =>
            /\ Len(inflight') > 0
            /\ inflight'[Len(inflight')].tag =
                   IF reqCount = 0 THEN NoTag ELSE lastHeader
       /\ feedEvent'.op = "failure" => nextTag' = nextTag]_feedVars

\* C5 witness: the third request carries tag=c1 after one page with cursor
\* "c1" and a failed second request.
C5_Witness ==
    /\ reqCount = 3
    /\ Len(inflight) = 1
    /\ inflight[1].tag = "c1"
    /\ received = <<"a">>
    /\ lastHeader = "c1"

\* C6: a failed fetch clears the busy flag, leaves list and cursor as they
\* were, and issues no request.
C6_FailureLeavesState ==
    [][feedEvent'.op = "failure" =>
          /\ isLoading' = FALSE
          /\ content' = content
          /\ nextTag' = nextTag
          /\ reqCount' = reqCount
          /\ Len(inflight') = Len(inflight) - 1]_feedVars

\* C6 witness: a request failed after a page had set the cursor.
C6_Witness ==
    /\ feedEvent.op = "failure"
    /\ content # <<>>
    /\ nextTag # Null
    /\ ~isLoading
    /\ inflight = <<>>

(***************************************************************************)
(* Path recorder: properties                                               *)
(***************************************************************************)
\* The coordinate recorded for position pos at the present time.
CoordinateOf(pos, isManual) ==
    [lat |-> pos.lat, lng |-> pos.lng, timestamp |-> now, isManual |-> isManual]

\* C7: a stream sample arriving on a non-empty path is discarded exactly when
\* its distance d from the last element exceeds 50 m and d / dt exceeds
\* 50 m/s (d > 50 * dt, dt = 0 included), and is appended otherwise; on an
\* empty path it is appended.  1000 m in 10 s is discarded, 100 m in 10 s is
\* accepted.
C7_OutlierFilter ==
    [][/\ \A w \in 1..MaxStarts, pos \in Positions :
            StreamSample(w, pos) =>
                LET n == Len(recordedPath)
                    d == Abs(pos.lat - recordedPath[n].lat)
                    dtMs == now - recordedPath[n].timestamp
                IN IF n > 0 /\ d > 50 /\ d * 1000 > 50 * dtMs
                   THEN recordedPath' = recordedPath
                   ELSE recordedPath' = Append(recordedPath, CoordinateOf(pos, FALSE))
       /\ IsOutlier([lat |-> 0, lng |-> 0, timestamp |-> 0, isManual |-> FALSE],
                    [lat |-> 1000, lng |-> 0, timestamp |-> 10000, isManual |-> FALSE])
       /\ ~IsOutlier([lat |-> 0, lng |-> 0, timestamp |-> 0, isManual |-> FALSE],
                     [lat |-> 100, lng |-> 0, timestamp |-> 10000, isManual |-> FALSE])
      ]_vars

\* C7 witness: a stream sample 1000 m from the last element was accepted
\* (TickMs later), and a later one was discarded.
C7_Witness ==
    /\ Len(recordedPath) = 2
    /\ ~recordedPath[2].isManual
    /\ recordedPath[2].lat # recordedPath[1].lat
    /\ recordedPath[2].timestamp > recordedPath[1].timestamp
    /\ message = "Skipped GPS outlier"

\* C8: a manual marker passed to recordCoordinate, by dropMarker on a
\* non-empty path or by its one-shot query, is appended as a coordinate
\* flagged manual whatever its distance and elapsed time.
C8_ManualAlwaysRecorded ==
    [][/\ \A q \in QueryKinds, pos \in Positions :
            MarkerQuerySuccess(q, pos) =>
                recordedPath' = Append(recordedPath, CoordinateOf(pos, TRUE))
       /\ (dropMarker /\ isRecording /\ Len(recordedPath) > 0) =>
              recordedPath' =
                  Append(recordedPath,
                         CoordinateOf(recordedPath[Len(recordedPath)], TRUE))
      ]_vars

\* C8 witness: a manual marker was recorded 1000 m from the last element
\* with no time elapsed, which the filter would reject for a stream sample.
C8_Witness ==
    /\ Len(recordedPath) = 2
    /\ recordedPath[2].isManual
    /\ recordedPath[2].lat # recordedPath[1].lat
    /\ recordedPath[2].timestamp = recordedPath[1].timestamp

\* C9 as stated: after a start taken while not recording, the path is empty
\* and the recorder is recording with an active subscription.
C9_StartClearsAndRecords ==
    [][(startTracking /\ ~isRecording) =>
          /\ recordedPath' = <<>>
          /\ isRecording'
          /\ watchId' # NoWatch
          /\ watchId' \in activeWatches']_vars

\* C9 amended: after a start taken while not recording, the path is empty;
\* the recorder is recording with an active subscription if the platform
\* provides geolocation, and otherwise stays as it was, without one.
C9_StartClearsPath ==
    [][(startTracking /\ ~isRecording) =>
          /\ recordedPath' = <<>>
          /\ IF geolocation
             THEN isRecording' /\ watchId' # NoWatch /\ watchId' \in activeWatches'
             ELSE ~isRecording' /\ watchId' = NoWatch /\ activeWatches' = {}]_vars

\* C9 witness: a second session has just been started, after a first one
\* that was stopped.
C9_Witness ==
    /\ isRecording
    /\ nextWatchId = 3
    /\ recordedPath = <<>>
    /\ message = "Tracking started. Recording path..."
    /\ activeWatches = {watchId}

\* C10: a stop taken while recording cancels the subscription and leaves the
\* recorder not recording; while it is not recording no stream sample is
\* appended to the path.
C10_StopEndsStream ==
    [][/\ (stopAndScreenshot /\ isRecording) =>
              /\ ~isRecording'
              /\ watchId' = NoWatch
              /\ watchId \notin activeWatches'
       /\ ~isRecording =>
              \A w \in 1..MaxStarts, pos \in Positions :
                  StreamSample(w, pos) => recordedPath' = recordedPath
      ]_vars

\* C10 witness: the recorder was stopped with one recorded sample and time
\* has passed since.
C10_Witness ==
    /\ ~isRecording
    /\ watchId = NoWatch
    /\ nextWatchId = 2
    /\ Len(recordedPath) = 1
    /\ now > recordedPath[1].timestamp
    /\ trackerView = "mounted"

\* Captures of stopAndScreenshot that have started and not finished.
CapturesPending == captures.settle + captures.raster

\* C11: every capture that disables map interaction re-enables it when its
\* rasterization settles, successfully or not, so that once captures are
\* pending they all finish with the map interactive again and the freeze
\* class removed, also when the path has no samples; a capture that does not
\* find its render target sets the failure message and leaves interaction,
\* freeze class and pending captures as they were.
C11_CaptureCleanup ==
    /\ \A st \in {"none", "live", "removed"}, i \in BOOLEAN, f \in BOOLEAN :
           CaptureBegin(FALSE, st, i, f, NoCaptures) =
               [message |-> "Screenshot failed: Map element not found.",
                mapInteractive |-> i, frozenClass |-> f, captures |-> NoCaptures]
    /\ [][\A ok \in BOOLEAN : CaptureDone(ok) => mapInteractive' /\ ~frozenClass']_vars
    /\ (CapturesPending > 0) ~> (CapturesPending = 0 /\ mapInteractive /\ ~frozenClass)

\* C11 witness: a session with no samples was stopped, its rasterization
\* failed, and the map is interactive again.
C11_Witness ==
    /\ recordedPath = <<>>
    /\ nextWatchId = 2
    /\ ~isRecording
    /\ CapturesPending = 0
    /\ message = "Screenshot failed during capture."
    /\ mapInteractive
    /\ ~frozenClass

trackerVarsButMessage ==
    <<recordedPath, isRecording, watchId, pathLayer, startMarker, endMarker,
      manualMarkers, mapLayers, mapState, mapInteractive, frozenClass, captures,
      trackerView, geolocation, layersFollowed, activeWatches, nextWatchId,
      initQuery, markerQueries, now>>

\* C13: a start taken while recording, and a stop or a drop marker taken
\* while not recording, change nothing but the status message: path,
\* recording flag and subscription stay as they are, no capture starts and
\* no position query is issued.  So a capture is started only by a stop
\* taken while recording.
C13_OperationGuards ==
    [][/\ (isRecording /\ startTracking) => UNCHANGED trackerVars
       /\ (~isRecording /\ stopAndScreenshot) => UNCHANGED trackerVarsButMessage
       /\ (~isRecording /\ dropMarker) => UNCHANGED trackerVarsButMessage
       /\ CapturesPending' > CapturesPending =>
              stopAndScreenshot /\ isRecording /\ ~isRecording'
      ]_vars

\* C13 witness: after a session with a sample was stopped and its capture
\* finished, stop was pressed again and only the message changed.
C13_Witness ==
    /\ message = "Tracking not running"
    /\ ~isRecording
    /\ watchId = NoWatch
    /\ Len(recordedPath) > 0
    /\ CapturesPending = 0
    /\ mapInteractive
    /\ nextWatchId = 2

\* C14: in every step the path is unchanged, or grows by one element at its
\* end with the elements it had left as they were, or becomes empty in a
\* step that takes the recorder from not recording to recording.
C14_PathAppendOnly ==
    [][\/ recordedPath' = recordedPath
       \/ /\ Len(recordedPath') = Len(recordedPath) + 1
          /\ SubSeq(recordedPath', 1, Len(recordedPath)) = recordedPath
       \/ /\ recordedPath' = <<>>
          /\ ~isRecording
          /\ isRecording'
      ]_vars

\* C14 witness: a second session has recorded two coordinates while the
\* capture of the first one is still pending.
C14_Witness ==
    /\ isRecording
    /\ nextWatchId = 3
    /\ Len(recordedPath) = 2
    /\ CapturesPending > 0

\* C15: unmounting the recorder while it records cancels its position
\* subscription; unmounting the feed disconnects its observer and removes
\* its scroll listener; once a component is unmounted no stream sample,
\* scroll event or sentinel intersection is handled by it.
C15_Teardown ==
    [][/\ (isRecording /\ TrackerUnmount) =>
              watchId \notin activeWatches' /\ activeWatches' = {}
       /\ (feedView = "mounted" /\ FeedUnmount) =>
              observer' # "observing" /\ ~scrollBound'
       /\ trackerView = "unmounted" =>
              \A w \in 1..MaxStarts, pos \in Positions : ~StreamSample(w, pos)
       /\ feedView = "unmounted" =>
              /\ \A s \in ScrollTops, v \in ViewportHeights, h \in FullHeights :
                     ~HandleScroll(s, v, h)
              /\ \A visible \in BOOLEAN : ~Intersect(visible)
      ]_vars

\* C15 witness: the recorder was unmounted while recording with a sample in
\* its path, and time has passed since that sample.
C15_Witness ==
    /\ trackerView = "unmounted"
    /\ isRecording
    /\ watchId # NoWatch
    /\ activeWatches = {}
    /\ Len(recordedPath) = 1
    /\ now > recordedPath[1].timestamp

\* The markers of the path on the map: all but the one that onMounted puts
\* at the initial location.
PathMarkers(layers) ==
    LET S == {mk \in BagToSet(layers) : mk.icon # "default"}
    IN [mk \in S |-> layers[mk]]

\* The markers that correspond to a path: a start marker at its first
\* point, an end marker at its last point when it has more than one, and a
\* manual marker for each of its manual coordinates.
ExpectedMarkers(path, isFinal) ==
    LET n == Len(path)
        ends == IF n = 0 THEN <<>>
                ELSE IF n = 1 THEN <<Marker("start-marker", path[1])>>
                ELSE <<Marker("start-marker", path[1]),
                       Marker(IF isFinal THEN "end-marker-final"
                              ELSE "end-marker-active", path[n])>>
        manual == SelectSeq(path, LAMBDA c : c.isManual)
        all == ends \o [i \in DOMAIN manual |-> Marker("manual-marker", manual[i])]
        S == {all[i] : i \in DOMAIN all}
    IN [mk \in S |-> Cardinality({i \in DOMAIN all : all[i] = mk})]

\* C16 as stated: after every redraw on the live map (a coordinate was
\* accepted, or a recording was stopped) the markers of the path on the map
\* are exactly those that correspond to the current path, with none left
\* over from an earlier redraw or session, and the polyline is the path.
C16_MarkersMatchPath ==
    [][(/\ mapState = "live"
        /\ \/ Len(recordedPath') > Len(recordedPath)
           \/ stopAndScreenshot /\ isRecording) =>
          /\ PathMarkers(mapLayers') =
                 ExpectedMarkers(recordedPath', isRecording /\ ~isRecording')
          /\ (pathLayer'.present \/ recordedPath' # <<>>) =>
                 pathLayer' = [present |-> TRUE, latlngs |-> LatLngs(recordedPath')]
      ]_vars

\* C17 as stated: while a capture that disabled map interaction has not
\* finished its rasterization, map interaction stays disabled, whatever
\* starts, stops, drops and other captures' completions come in between.
C17_FrozenWhileCapturing ==
    (trackerView = "mounted" /\ CapturesPending > 0) => ~mapInteractive

\* C18 as stated: a coordinate is appended to the path only while the
\* recorder is recording, and the manual marker of a one-shot query is
\* appended in the session that issued the query: only if that session has
\* not been stopped since.
C18_AppendOnlyInSession ==
    [][/\ Len(recordedPath') > Len(recordedPath) => isRecording
       /\ \A pos \in Positions :
              MarkerQuerySuccess("stale", pos) =>
                  Len(recordedPath') = Len(recordedPath)
      ]_vars

\* C19 as stated: when the last element of the path is a manual marker that
\* copies the position of the element before it, a stream sample is
\* accepted or discarded as it would be without that marker, that is, as
\* the filter decides against the element before the marker.
C19_MarkerKeepsVerdict ==
    [][\A w \in 1..MaxStarts, pos \in Positions :
          LET n == Len(recordedPath) IN
          (/\ StreamSample(w, pos)
           /\ n >= 2
           /\ recordedPath[n].isManual
           /\ recordedPath[n].lat = recordedPath[n - 1].lat
           /\ recordedPath[n].lng = recordedPath[n - 1].lng) =>
              (recordedPath' = recordedPath
                  <=> IsOutlier(recordedPath[n - 1], CoordinateOf(pos, FALSE)))
      ]_vars

\* C20: a scroll event issues a request exactly when no request is in
\* flight, the cursor is not null and 2 * (scrollOffset + viewportHeight) >=
\* documentHeight; it then issues one request; below the threshold it
\* changes nothing of the component.
C20_ScrollTrigger ==
    [][\A s \in ScrollTops, v \in ViewportHeights, h \in FullHeights :
          HandleScroll(s, v, h) =>
              /\ reqCount' > reqCount <=>
                     (~isLoading /\ nextTag # Null /\ 2 * (s + v) >= h)
              /\ reqCount' > reqCount =>
                     /\ reqCount' = reqCount + 1
                     /\ isLoading'
                     /\ inflight' = Append(inflight, RequestParams(nextTag))
              /\ 2 * (s + v) < h =>
                     UNCHANGED <<content, nextTag, isLoading, sentinelRef, observer,
                                 feedView, scrollBound, inflight, reqCount>>
      ]_vars

\* C20 witness: with a cursor set and nothing in flight, a scroll event at
\* the threshold or beyond issued the request for the next page.
C20_Witness ==
    /\ feedEvent = Event("scroll", TRUE, TRUE)
    /\ content # <<>>
    /\ Len(inflight) = 1
    /\ inflight[1].tag = lastHeader
    /\ isLoading

\* C21: while the recorder is mounted, it is recording exactly when its
\* subscription handle is set; the platform then holds that subscription
\* and no other, and holds none while the recorder is not recording.
C21_HandleInvariant ==
    trackerView = "mounted" =>
        /\ isRecording <=> watchId # NoWatch
        /\ Cardinality(activeWatches) <= 1
        /\ activeWatches = IF isRecording THEN {watchId} ELSE {}

\* C21 witness: the mounted recorder is in its second session, after a first
\* one was stopped, and a manual marker has been appended in it.
C21_Witness ==
    /\ trackerView = "mounted"
    /\ isRecording
    /\ watchId = 2
    /\ activeWatches = {2}
    /\ captures # NoCaptures
    /\ Len(recordedPath) > 0
    /\ recordedPath[Len(recordedPath)].isManual

\* The one request issued so far, the fetch of onMounted, was rejected: it
\* is settled, no response has delivered items and none has ended the feed.
FirstPageFailed ==
    /\ reqCount = 1
    /\ inflight = <<>>
    /\ received = <<>>
    /\ ~exhausted

\* C22: when the fetch issued on mount is rejected, the cursor is still null
\* and the list empty; from then on every step leaves them so and issues no
\* request, whatever is scrolled or reported by the observer: the feed stays
\* empty for the rest of the screen's lifetime.
C22_FirstPageFailure ==
    [][/\ (reqCount = 1 /\ \E i \in 1..MaxRequests : ResponseFailure(i)) =>
              FirstPageFailed' /\ nextTag' = Null /\ content' = <<>>
       /\ FirstPageFailed =>
              /\ FirstPageFailed'
              /\ nextTag' = Null
              /\ content' = <<>>
              /\ ~isLoading'
              /\ ~feedEvent'.issued
      ]_vars

\* C22 witness: after the first page failed, the page was scrolled past the
\* ratio on the mounted screen and no request was issued.
C22_Witness ==
    /\ FirstPageFailed
    /\ feedView = "mounted"
    /\ nextTag = Null
    /\ content = <<>>
    /\ feedEvent = Event("scroll", TRUE, FALSE)

====
